---- MODULE Spec2Model ----
(***************************************************************************)
(* The streaming search view (SearchSection) of the web front-end: the     *)
(* session state store (searchResponse, comments, isFetching), the phase   *)
(* tracker (searchState, analyzeStartTime, the setTimeout callbacks) and   *)
(* the cancellation of superseded streams (lastSearchCancellationToken).   *)
(*                                                                         *)
(* JavaScript runs every handler to completion on one event loop, so each  *)
(* handler, timer callback and user action is one atomic action.  The      *)
(* handlers handed to searchRequestStreamed are the closures of the render *)
(* in which onSearch ran: they read the `agentic` and `analyzeStartTime`   *)
(* of that render, while functional setState updaters read the current     *)
(* state.  A stream therefore carries the values its handlers captured.    *)
(*                                                                         *)
(* The assistant editor (AssistantEditor) is a page of its own: its form   *)
(* and the validation of the form are followed by SpecEditor.              *)
(***************************************************************************)
EXTENDS Integers, Sequences, FiniteSets, Bags, TLC

VARIABLES
    searchState,                  \* useState<searchState>("input")
    searchResponse,               \* useState<SearchResponse>
    comments,                     \* useState<any>(null)
    isFetching,                   \* useState(false)
    analyzeStartTime,             \* useState<number>(0)
    agentic,                      \* useState(agenticSearchEnabled); both initial
                                  \* values are explored, the Ctrl+/ toggle is
                                  \* not followed
    disabledAgentic,              \* prop of SearchSection
    query,                        \* useState<string>("")
    lastSearchCancellationToken,  \* useRef<CancellationToken | null>: 0 is null
    cancelled,                    \* the tokens whose cancel() has been called
    streams,                      \* one searchRequestStreamed call per token
    timers,                       \* pending setTimeout callbacks (a bag)
    now,                          \* Date.now(), in milliseconds
    dispatched,                   \* events dispatched so far
    last,                         \* history: the step taken last
    pacing,                       \* history, kept by SpecPacing only: when the
                                  \* current query started and when its own
                                  \* analyzing timer ran (0: not yet)
    feed,                         \* history, kept by SpecStore only: the event
                                  \* handled last, its payload, the state it
                                  \* found and the last payload of each event
    editor,                       \* the Formik form of AssistantEditor: its
                                  \* values and the errors of its validation
    apiKeyForm                    \* the modal form of DanswerApiKeyForm

vars == <<searchState, searchResponse, comments, isFetching, analyzeStartTime,
          agentic, disabledAgentic, query, lastSearchCancellationToken,
          cancelled, streams, timers, now, dispatched, last, pacing, feed, editor,
          apiKeyForm>>

\* ------------------------------------------------------------------ bounds
MaxQueries == 2     \* onSearch calls that start a query
MaxEvents == 2      \* events the network delivers in total
MaxTicks == 3       \* clock ticks the model follows
MaxFineTicks == 10  \* clock ticks SpecPacing follows
MaxQuotes == 3      \* quotes in one quotes event
MaxText == 2        \* characters in a text field of the assistant editor
MaxGroups == 1      \* user groups offered by the assistant editor
MaxMessages == 2    \* messages of a saved session

\* ------------------------------------------------------- program constants
ReadingDelay == 1500
AnalyzingDelay == 4500
PhaseInterval == 1500
DefaultChunks == 10

Tick == ReadingDelay    \* granularity of the modelled clock
FineTick == PhaseInterval \div 3    \* granularity of the clock of SpecPacing

\* ------------------------------------------------------------------ values
None == <<>>
Some(v) == <<v>>

Phases == {"input", "searching", "reading", "analyzing", "summarizing",
           "generating", "citing"}

Fields == {"answer", "quotes", "documents", "suggestedSearchType",
           "suggestedFlowType", "selectedDocIndices", "error", "messageId",
           "additional_relevance"}

initialSearchResponse == [f \in Fields |-> None]

\* setSearchResponse((prevState) => ({...(prevState || initial), field: v}))
Merge_KeepsFirst(prevState, field, v) ==
    IF prevState[field] # None
    THEN prevState
    ELSE [prevState EXCEPT ![field] = Some(v)]

Merge(prevState, field, v) == [prevState EXCEPT ![field] = Some(v)]

newSearchState_Blind(currentSearchState, newState) == newState

newSearchState(currentSearchState, newState) ==
    IF currentSearchState # "input" THEN newState ELSE "input"

\* Math.ceil(elapsedTime / 1500) * 1500, elapsedTime >= 0
nextInterval(elapsedTime) ==
    ((elapsedTime + PhaseInterval - 1) \div PhaseInterval) * PhaseInterval

Timer(kind, delay, q) == [kind |-> kind, due |-> now + delay, q |-> q]
setTimeout(bag, kind, delay, q) == bag (+) SetToBag({Timer(kind, delay, q)})

\* The history of a step: what ran, for which query, the phase before it,
\* and `live`: the phase has not been "input" since the last query start.
NoStep == [op |-> "init", q |-> 0, ev |-> "", ran |-> FALSE, prev |-> "input",
           live |-> FALSE]
Step(op, q, ev, ran) ==
    [op |-> op, q |-> q, ev |-> ev, ran |-> ran, prev |-> searchState,
     live |-> ((op = "onSearch" /\ ran) \/ last.live) /\ searchState' # "input"]

NoPacing == [started |-> 0, analyzedAt |-> 0]

\* ------------------------------------------- the assistant editor's form
\* A text is a sequence of characters, blank or not.
Chars == {" ", "x"}
Texts == UNION {[1..n -> Chars] : n \in 0..MaxText}

\* The values of the other fields: null, a number or a string.
Null == <<"null">>
Number(n) == <<"number", n>>
String(s) == <<"string", s>>
Truthy(x) ==
    CASE x[1] = "null" -> FALSE
      [] x[1] = "number" -> x[2] # 0
      [] x[1] = "string" -> x[2] # ""

\* The tools of the page (findSearchTool, imageGenerationTool) and the user
\* groups (useUserGroups).
SearchTool == 1
ImageGenerationTool == 2
ToolIds == {SearchTool, ImageGenerationTool}
UserGroups == 1..MaxGroups

\* The assistants that can be opened for an update.
ExistingPersonas ==
    {[name |-> <<"x">>, description |-> <<"x">>, system_prompt |-> <<"x">>,
      task_prompt |-> <<>>, is_public |-> FALSE, groups |-> <<>>,
      num_chunks |-> Number(n), llm_model_provider_override |-> o[1],
      llm_model_version_override |-> o[2], tools |-> ts] :
        n \in {0, 5}, ts \in {{}, {SearchTool}},
        o \in {<<Null, Null>>, <<String("p"), String("m")>>}}

\* The text fields of initialValues; a new assistant starts with all empty.
TextFields == {"name", "description", "system_prompt", "task_prompt"}

\* initialValues: existingPersona?.field ?? default
initialValues(existingPersona, tools, defaultPublic) ==
    IF existingPersona = None
    THEN [name |-> <<>>, description |-> <<>>, system_prompt |-> <<>>,
          task_prompt |-> <<>>, is_public |-> defaultPublic, groups |-> <<>>,
          num_chunks |-> Null, llm_model_provider_override |-> Null,
          llm_model_version_override |-> Null,
          enabled_tools_map |-> [t \in tools |-> FALSE]]
    ELSE LET persona == existingPersona[1]
         IN  [name |-> persona.name, description |-> persona.description,
              system_prompt |-> persona.system_prompt,
              task_prompt |-> persona.task_prompt,
              is_public |-> persona.is_public, groups |-> persona.groups,
              num_chunks |-> persona.num_chunks,
              llm_model_provider_override |-> persona.llm_model_provider_override,
              llm_model_version_override |-> persona.llm_model_version_override,
              enabled_tools_map |-> [t \in tools |-> t \in persona.tools]]

\* The page as it is mounted: the form untouched, nothing submitted.  `popup`,
\* `sent` and `answered` tell what the last step did: the popup it showed
\* (usePopup hides it again), the payload it sent, the responses it received.
Mounted(existingPersona, tools, defaultPublic) ==
    [values |-> initialValues(existingPersona, tools, defaultPublic),
     errors |-> {}, validated |-> FALSE, tools |-> tools,
     isUpdate |-> existingPersona # None, isSubmitting |-> FALSE,
     popup |-> None, awaiting |-> FALSE, pushed |-> FALSE, sent |-> None,
     answered |-> None]

\* What is typed into a field: any text into the two prompts, nothing or a
\* word into the name and the description.
Typed(field) ==
    IF field \in {"system_prompt", "task_prompt"} THEN Texts ELSE {<<>>, <<"x">>}

NoEditor == Mounted(None, ToolIds, TRUE)

\* ------------------------------------------------------ the API key form
\* The modal as it is opened, for a new key (apiKey undefined) or for an
\* existing one.  `called` tells which callbacks of the parent the last step
\* called, `answered` the response it received.
ApiKeys == {[api_key_id |-> 1, api_key_name |-> n, api_key_role |-> r] :
              n \in {<<>>, <<"x">>}, r \in {"admin", "basic"}}
Opened(apiKey) ==
    [isUpdate |-> apiKey # None,
     apiKey |-> apiKey,
     values |-> [name |-> IF apiKey # None THEN apiKey[1].api_key_name ELSE <<>>,
                 is_admin |-> IF apiKey # None
                              THEN apiKey[1].api_key_role = "admin"
                              ELSE FALSE],
     isSubmitting |-> FALSE, request |-> None, popup |-> None,
     closed |-> FALSE, called |-> {}, answered |-> None]
NoApiKeyForm == Opened(None)

\* The update functions that merge a field into searchResponse.
FieldEvents ==
    {"updateCurrentAnswer", "updateQuotes", "updateDocs",
     "updateSuggestedSearchType", "updateSuggestedFlowType",
     "updateSelectedDocIndices", "updateError", "updateMessageAndThreadId",
     "updateDocumentRelevance"}

\* The history of the store: the update function that ran last and its
\* payload, the state it found (phase, response, comments, fetching), whether
\* the function before it was the same one with the same payload, and the
\* last payload each function was given since the query started.
NoFeed == [name |-> "", value |-> None,
           prev |-> <<"input", initialSearchResponse, None, FALSE>>,
           twice |-> FALSE, written |-> [n \in FieldEvents |-> None]]
Handled(name, v) ==
    [name |-> name, value |-> Some(v),
     prev |-> <<searchState, searchResponse, comments, isFetching>>,
     twice |-> feed.name = name /\ feed.value = Some(v),
     written |-> [feed.written EXCEPT ![name] = Some(v)]]

Init ==
    /\ searchState = "input"
    /\ searchResponse = initialSearchResponse
    /\ comments = None
    /\ isFetching = FALSE
    /\ analyzeStartTime = 0
    /\ agentic \in BOOLEAN
    /\ disabledAgentic \in BOOLEAN
    /\ query = ""
    /\ lastSearchCancellationToken = 0
    /\ cancelled = {}
    /\ streams = <<>>
    /\ timers = EmptyBag
    /\ now = 0
    /\ dispatched = 0
    /\ last = NoStep
    /\ pacing = NoPacing
    /\ feed = NoFeed
    /\ editor = NoEditor
    /\ apiKeyForm = NoApiKeyForm


\* ------------------------------------------------- cancellation (lib code)
\* cancellable({cancellationToken, fn}): the wrapped fn runs only while the
\* token has not been cancelled.
cancellable(token) == token \notin cancelled

\* The callbacks onSearch hands to searchRequestStreamed: each one is
\* cancellable({cancellationToken: lastSearchCancellationToken.current, fn}).
\* TRUE when a dispatch of callback `name` of the stream of `token` runs fn.
searchFnArgs_Unwrapped(name, token) ==
    IF name = "updateComments" THEN TRUE ELSE cancellable(token)

searchFnArgs(name, token) == cancellable(token)

cancelLast_Skip == cancelled

cancelLast_AfterCreate ==
    IF lastSearchCancellationToken # 0
    THEN cancelled \cup {Len(streams) + 1}
    ELSE cancelled

\* if (lastSearchCancellationToken.current) { ....current.cancel(); }
cancelLast ==
    IF lastSearchCancellationToken # 0
    THEN cancelled \cup {lastSearchCancellationToken}
    ELSE cancelled

\* ------------------------------------------------------- stream handlers
\* c: the values the handler's closure captured, q: the query of the stream.
store == <<searchState, searchResponse, comments, isFetching, timers>>

updateCurrentAnswer_Appends(c, q, answer) ==
    /\ searchResponse' =
         IF searchResponse.answer # None
         THEN Merge(searchResponse, "answer", searchResponse.answer[1] + answer)
         ELSE Merge(searchResponse, "answer", answer)
    /\ timers' =
         IF c.analyzeStartTime # 0
         THEN LET elapsedTime == now - c.analyzeStartTime
              IN  setTimeout(timers, "generating",
                             nextInterval(elapsedTime) - elapsedTime, q)
         ELSE timers
    /\ UNCHANGED <<searchState, comments, isFetching>>

updateCurrentAnswer(c, q, answer) ==
    /\ searchResponse' = Merge(searchResponse, "answer", answer)
    /\ timers' =
         IF c.analyzeStartTime # 0
         THEN LET elapsedTime == now - c.analyzeStartTime
              IN  setTimeout(timers, "generating",
                             nextInterval(elapsedTime) - elapsedTime, q)
         ELSE timers
    /\ UNCHANGED <<searchState, comments, isFetching>>

updateQuotes_KeepsPhase(c, q, quotes) ==
    /\ searchResponse' = Merge(searchResponse, "quotes", quotes)
    /\ UNCHANGED <<searchState, comments, isFetching, timers>>

updateQuotes(c, q, quotes) ==
    /\ searchResponse' = Merge(searchResponse, "quotes", quotes)
    /\ searchState' = "input"
    /\ UNCHANGED <<comments, isFetching, timers>>

updateDocs_IgnoresDisabled(c, q, documents) ==
    /\ timers' =
         IF c.agentic
         THEN setTimeout(setTimeout(timers, "reading", ReadingDelay, q),
                         "analyzing", AnalyzingDelay, q)
         ELSE timers
    /\ searchResponse' = Merge(searchResponse, "documents", documents)
    /\ searchState' = IF Len(documents) = 0 THEN "input" ELSE searchState
    /\ UNCHANGED <<comments, isFetching>>

updateDocs(c, q, documents) ==
    /\ timers' =
         IF c.agentic
         THEN setTimeout(setTimeout(timers, "reading", ReadingDelay, q),
                         "analyzing", AnalyzingDelay, q)
         ELSE timers
    /\ searchResponse' = Merge(searchResponse, "documents", documents)
    /\ isFetching' = IF disabledAgentic THEN FALSE ELSE isFetching
    /\ searchState' =
         IF disabledAgentic \/ Len(documents) = 0 THEN "input" ELSE searchState
    /\ UNCHANGED comments

updateSuggestedSearchType(c, q, suggestedSearchType) ==
    /\ searchResponse' =
         Merge(searchResponse, "suggestedSearchType", suggestedSearchType)
    /\ UNCHANGED <<searchState, comments, isFetching, timers>>

updateSuggestedFlowType(c, q, suggestedFlowType) ==
    /\ searchResponse' =
         Merge(searchResponse, "suggestedFlowType", suggestedFlowType)
    /\ UNCHANGED <<searchState, comments, isFetching, timers>>

updateSelectedDocIndices_Replaces(c, q, docIndices) ==
    /\ searchResponse' =
         Merge(initialSearchResponse, "selectedDocIndices", docIndices)
    /\ UNCHANGED <<searchState, comments, isFetching, timers>>

updateSelectedDocIndices(c, q, docIndices) ==
    /\ searchResponse' = Merge(searchResponse, "selectedDocIndices", docIndices)
    /\ UNCHANGED <<searchState, comments, isFetching, timers>>

resetInputState_Swapped(finalized) == IF finalized THEN "searching" ELSE "input"

\* resetInput(finalized): setComments(null); setSearchState(...)
resetInputState(finalized) == IF finalized THEN "input" ELSE "searching"

updateError_DropsPartial(c, q, error) ==
    /\ comments' = None
    /\ searchState' = resetInputState(TRUE)
    /\ searchResponse' = Merge(initialSearchResponse, "error", error)
    /\ UNCHANGED <<isFetching, timers>>

updateError_ClearsFetching(c, q, error) ==
    /\ comments' = None
    /\ searchState' = resetInputState(TRUE)
    /\ searchResponse' = Merge(searchResponse, "error", error)
    /\ isFetching' = FALSE
    /\ UNCHANGED timers

updateError(c, q, error) ==
    /\ comments' = None
    /\ searchState' = resetInputState(TRUE)
    /\ searchResponse' = Merge(searchResponse, "error", error)
    /\ UNCHANGED <<isFetching, timers>>

updateMessageAndThreadId(c, q, messageId) ==
    /\ searchResponse' = Merge(searchResponse, "messageId", messageId)
    /\ isFetching' = FALSE
    /\ searchState' = "input"
    /\ UNCHANGED <<comments, timers>>

updateDocumentRelevance(c, q, relevance) ==
    /\ searchResponse' = Merge(searchResponse, "additional_relevance", relevance)
    /\ isFetching' = FALSE
    /\ searchState' = IF disabledAgentic THEN "input" ELSE "analyzing"
    /\ UNCHANGED <<comments, timers>>

updateComments(c, q, newComments) ==
    /\ comments' = Some(newComments)
    /\ UNCHANGED <<searchState, searchResponse, isFetching, timers>>

finishedSearching_Always(c, q) ==
    /\ searchState' = "input"
    /\ UNCHANGED <<searchResponse, comments, isFetching, timers>>

finishedSearching(c, q) ==
    /\ searchState' = IF disabledAgentic THEN "input" ELSE searchState
    /\ UNCHANGED <<searchResponse, comments, isFetching, timers>>

\* ------------------------------------------------------ the stream consumer
\* searchRequestStreamed dispatches the event `name` of stream q; the wrapped
\* callback runs `handler` unless the stream's token has been cancelled.
Closure(q) == [agentic |-> streams[q].agentic,
               analyzeStartTime |-> streams[q].analyzeStartTime]

Deliver(q, name, handler) ==
    /\ ~streams[q].done
    /\ dispatched < MaxEvents
    /\ dispatched' = dispatched + 1
    /\ streams' = [streams EXCEPT ![q].done = (name = "finishedSearching")]
    /\ IF searchFnArgs(name, q) THEN handler ELSE UNCHANGED store
    /\ last' = Step("dispatch", q, name, searchFnArgs(name, q))
    /\ UNCHANGED <<analyzeStartTime, agentic, disabledAgentic, query,
                   lastSearchCancellationToken, cancelled, now, pacing,
                   editor, apiKeyForm>>

Dispatch(q, name, handler) == Deliver(q, name, handler) /\ UNCHANGED feed

Queries == 1..Len(streams)

\* the payloads of stream q: a value tagged with the query that produced it
Documents(q) == {<<>>, <<q>>}

\* --------------------------------------------------------- timer callbacks
Due(kind) == {t \in BagToSet(timers) : t.kind = kind /\ t.due <= now}

Fired(t) ==
    /\ timers' = timers (-) SetToBag({t})
    /\ last' = Step("timer", t.q, t.kind, TRUE)
    /\ UNCHANGED <<searchResponse, comments, isFetching, agentic,
                   disabledAgentic, query, lastSearchCancellationToken,
                   cancelled, streams, now, dispatched, feed, editor,
                   apiKeyForm>>

readingTimer ==
    \E t \in Due("reading") :
        /\ searchState' = newSearchState(searchState, "reading")
        /\ UNCHANGED analyzeStartTime
        /\ Fired(t)

analyzingTimer_NoTimestamp ==
    \E t \in Due("analyzing") :
        /\ searchState' = newSearchState(searchState, "analyzing")
        /\ UNCHANGED analyzeStartTime
        /\ Fired(t)

analyzingTimer ==
    \E t \in Due("analyzing") :
        /\ analyzeStartTime' = now
        /\ searchState' = newSearchState(searchState, "analyzing")
        /\ Fired(t)

generatingTimer_Summarizing ==
    \E t \in Due("generating") :
        /\ searchState' = newSearchState(searchState, "summarizing")
        /\ UNCHANGED analyzeStartTime
        /\ Fired(t)

generatingTimer ==
    \E t \in Due("generating") :
        /\ searchState' = newSearchState(searchState, "generating")
        /\ UNCHANGED analyzeStartTime
        /\ Fired(t)

\* The clock advances only when no callback is due: a timer runs at its time.
Advance(tick, horizon) ==
    /\ \A t \in BagToSet(timers) : t.due > now
    /\ now < horizon
    /\ now' = now + tick
    /\ UNCHANGED <<searchState, searchResponse, comments, isFetching,
                   analyzeStartTime, agentic, disabledAgentic, query,
                   lastSearchCancellationToken, cancelled, streams, timers,
                   dispatched, pacing, feed, editor, apiKeyForm>>
    /\ last' = Step("tick", 0, "", TRUE)

AdvanceTime == Advance(Tick, MaxTicks * Tick)

\* ------------------------------------------------------------ user actions
setQuery(text) ==
    /\ query # text
    /\ query' = text
    /\ UNCHANGED <<searchState, searchResponse, comments, isFetching,
                   analyzeStartTime, agentic, disabledAgentic,
                   lastSearchCancellationToken, cancelled, streams, timers, now,
                   dispatched, pacing, feed, editor, apiKeyForm>>
    /\ last' = Step("setQuery", 0, "", TRUE)

onSearch_KeepsResponse(overrideMessage) ==
    LET effective == IF overrideMessage # "" THEN overrideMessage ELSE query
        token == Len(streams) + 1
    IN  IF effective = ""
        THEN /\ UNCHANGED <<searchState, searchResponse, comments, isFetching,
                            analyzeStartTime, agentic, disabledAgentic, query,
                            lastSearchCancellationToken, cancelled, streams,
                            timers, now, dispatched>>
             /\ last' = Step("onSearch", 0, overrideMessage, FALSE)
        ELSE /\ Len(streams) < MaxQueries
             /\ comments' = None
             /\ searchState' = resetInputState(FALSE)
             /\ cancelled' = cancelLast
             /\ lastSearchCancellationToken' = token
             /\ isFetching' = TRUE
             /\ searchResponse' = searchResponse
             /\ streams' = Append(streams,
                    [agentic |-> agentic, analyzeStartTime |-> analyzeStartTime,
                     done |-> FALSE])
             /\ UNCHANGED <<analyzeStartTime, agentic, disabledAgentic, query,
                            timers, now, dispatched>>
             /\ last' = Step("onSearch", token, overrideMessage, TRUE)

onSearch_CancelsFirst(overrideMessage) ==
    LET effective == IF overrideMessage # "" THEN overrideMessage ELSE query
        token == Len(streams) + 1
    IN  IF effective = ""
        THEN /\ cancelled' = cancelLast
             /\ UNCHANGED <<searchState, searchResponse, comments, isFetching,
                            analyzeStartTime, agentic, disabledAgentic, query,
                            lastSearchCancellationToken, streams, timers, now,
                            dispatched>>
             /\ last' = Step("onSearch", 0, overrideMessage, FALSE)
        ELSE /\ Len(streams) < MaxQueries
             /\ comments' = None
             /\ searchState' = resetInputState(FALSE)
             /\ cancelled' = cancelLast
             /\ lastSearchCancellationToken' = token
             /\ isFetching' = TRUE
             /\ searchResponse' = initialSearchResponse
             /\ streams' = Append(streams,
                    [agentic |-> agentic, analyzeStartTime |-> analyzeStartTime,
                     done |-> FALSE])
             /\ UNCHANGED <<analyzeStartTime, agentic, disabledAgentic, query,
                            timers, now, dispatched>>
             /\ last' = Step("onSearch", token, overrideMessage, TRUE)

onSearch(overrideMessage) ==
    LET effective == IF overrideMessage # "" THEN overrideMessage ELSE query
        token == Len(streams) + 1
    IN  IF effective = ""
        THEN /\ UNCHANGED <<searchState, searchResponse, comments, isFetching,
                            analyzeStartTime, agentic, disabledAgentic, query,
                            lastSearchCancellationToken, cancelled, streams,
                            timers, now, dispatched>>
             /\ last' = Step("onSearch", 0, overrideMessage, FALSE)
        ELSE /\ Len(streams) < MaxQueries
             /\ comments' = None
             /\ searchState' = resetInputState(FALSE)
             /\ cancelled' = cancelLast
             /\ lastSearchCancellationToken' = token
             /\ isFetching' = TRUE
             /\ searchResponse' = initialSearchResponse
             /\ streams' = Append(streams,
                    [agentic |-> agentic, analyzeStartTime |-> analyzeStartTime,
                     done |-> FALSE])
             /\ UNCHANGED <<analyzeStartTime, agentic, disabledAgentic, query,
                            timers, now, dispatched>>
             /\ last' = Step("onSearch", token, overrideMessage, TRUE)

Next ==
    \/ \E m \in {"", "m"} : onSearch(m) /\ UNCHANGED <<pacing, feed, editor, apiKeyForm>>
    \/ \E text \in {"", "q"} : setQuery(text)
    \/ \E q \in Queries :
         Dispatch(q, "updateCurrentAnswer", updateCurrentAnswer(Closure(q), q, q))
    \/ \E q \in Queries :
         Dispatch(q, "updateQuotes", updateQuotes(Closure(q), q, q))
    \/ \E q \in Queries : \E d \in Documents(q) :
         Dispatch(q, "updateDocs", updateDocs(Closure(q), q, d))
    \/ \E q \in Queries :
         Dispatch(q, "updateSuggestedSearchType",
                  updateSuggestedSearchType(Closure(q), q, q))
    \/ \E q \in Queries :
         Dispatch(q, "updateSuggestedFlowType",
                  updateSuggestedFlowType(Closure(q), q, q))
    \/ \E q \in Queries :
         Dispatch(q, "updateSelectedDocIndices",
                  updateSelectedDocIndices(Closure(q), q, q))
    \/ \E q \in Queries :
         Dispatch(q, "updateError", updateError(Closure(q), q, q))
    \/ \E q \in Queries :
         Dispatch(q, "updateMessageAndThreadId",
                  updateMessageAndThreadId(Closure(q), q, q))
    \/ \E q \in Queries :
         Dispatch(q, "updateDocStatus",
                  updateMessageAndThreadId(Closure(q), q, q))
    \/ \E q \in Queries :
         Dispatch(q, "updateDocumentRelevance",
                  updateDocumentRelevance(Closure(q), q, q))
    \/ \E q \in Queries :
         Dispatch(q, "updateComments", updateComments(Closure(q), q, q))
    \/ \E q \in Queries :
         Dispatch(q, "finishedSearching", finishedSearching(Closure(q), q))
    \/ readingTimer /\ UNCHANGED pacing
    \/ analyzingTimer /\ UNCHANGED pacing
    \/ generatingTimer /\ UNCHANGED pacing
    \/ AdvanceTime

Spec == Init /\ [][Next]_vars

\* ---------------------------------------------------------------- pacing
\* The phase tracker alone, on a finer clock: queries, documents and answer
\* events and the three timers, with the history of when the current query
\* started and when its own analyzing timer ran.
AdvanceFine == Advance(FineTick, MaxFineTicks * FineTick)

NextPacing ==
    \/ /\ onSearch("m")
       /\ pacing' = [started |-> now, analyzedAt |-> 0]
       /\ UNCHANGED <<feed, editor, apiKeyForm>>
    \/ \E q \in Queries :
         Dispatch(q, "updateCurrentAnswer", updateCurrentAnswer(Closure(q), q, q))
    \/ \E q \in Queries : \E d \in Documents(q) :
         Dispatch(q, "updateDocs", updateDocs(Closure(q), q, d))
    \/ readingTimer /\ UNCHANGED pacing
    \/ /\ analyzingTimer
       /\ pacing' = IF last'.q = lastSearchCancellationToken
                     THEN [pacing EXCEPT !.analyzedAt = now]
                     ELSE pacing
    \/ generatingTimer /\ UNCHANGED pacing
    \/ AdvanceFine

SpecPacing == Init /\ [][NextPacing]_vars

\* ---------------------------------------------------------------- editor
trim_Identity(s) == s

\* String.prototype.trim
RECURSIVE trimStart(_)
trimStart(s) ==
    IF s # <<>> /\ Head(s) = " " THEN trimStart(Tail(s)) ELSE s
RECURSIVE trimEnd(_)
trimEnd(s) ==
    IF s # <<>> /\ s[Len(s)] = " "
    THEN trimEnd(SubSeq(s, 1, Len(s) - 1))
    ELSE s
trim(s) == trimEnd(trimStart(s))

ValidationError(path, message) == [path |-> path, message |-> message]

\* Yup.string().required(message): an empty text is absent
required(values, path, message) ==
    IF values[path] = <<>> THEN {ValidationError(path, message)} ELSE {}

\* .test("system-prompt-or-task-prompt", ...)
systemPromptOrTaskPrompt(values) ==
    LET systemPromptSpecified ==
            values.system_prompt # <<>> /\ Len(trim(values.system_prompt)) > 0
        taskPromptSpecified ==
            values.task_prompt # <<>> /\ Len(trim(values.task_prompt)) > 0
    IN  IF systemPromptSpecified \/ taskPromptSpecified
        THEN {}
        ELSE {ValidationError("system_prompt",
                "Must provide either System Prompt or Additional Instructions")}

\* The errors of the schema for the values; system_prompt and task_prompt
\* are plain Yup.string() and fail no rule of their own.
validationSchema(values) ==
    required(values, "name", "Must provide a name for the Assistant")
      \cup required(values, "description",
                    "Must provide a description for the Assistant")
      \cup systemPromptOrTaskPrompt(values)

Validated(values) ==
    [editor EXCEPT !.values = values, !.errors = validationSchema(values),
                   !.validated = TRUE, !.popup = None, !.sent = None,
                   !.answered = None]

\* the state of the search view, which the editor does not touch
search == <<searchState, searchResponse, comments, isFetching,
            analyzeStartTime, agentic, disabledAgentic, query,
            lastSearchCancellationToken, cancelled, streams, timers, now,
            dispatched, last, pacing, feed>>

\* A text field is edited; Formik validates the form on every change.
handleChange(field, text) ==
    /\ ~editor.pushed
    /\ editor.values[field] # text
    /\ editor' = Validated([editor.values EXCEPT ![field] = text])
    /\ UNCHANGED <<searchState, searchResponse, comments, isFetching,
                   analyzeStartTime, agentic, disabledAgentic, query,
                   lastSearchCancellationToken, cancelled, streams, timers,
                   now, dispatched, last, pacing, feed, apiKeyForm>>

\* The form is submitted untouched; Formik validates it before onSubmit.
validateForm ==
    /\ ~editor.validated
    /\ editor' = Validated(editor.values)
    /\ UNCHANGED <<searchState, searchResponse, comments, isFetching,
                   analyzeStartTime, agentic, disabledAgentic, query,
                   lastSearchCancellationToken, cancelled, streams, timers,
                   now, dispatched, last, pacing, feed, apiKeyForm>>

NextEditor ==
    \/ \E field \in TextFields : \E text \in Typed(field) :
         handleChange(field, text)
    \/ validateForm

SpecEditor == Init /\ [][NextEditor]_vars

\* ---------------------------------------------------- the editor's submit
\* The page is opened for a new assistant or for an existing one.
openEditor(existingPersona, tools, defaultPublic) ==
    /\ ~editor.awaiting
    /\ editor' = Mounted(existingPersona, tools, defaultPublic)
    /\ UNCHANGED <<search, apiKeyForm>>

\* setFieldValue(field, value); Formik validates the form on every change.
setFieldValue(field, value) ==
    /\ ~editor.pushed
    /\ editor' = Validated([editor.values EXCEPT ![field] = value])
    /\ UNCHANGED <<search, apiKeyForm>>

\* <BooleanFormField name="is_public">
toggleIsPublic == setFieldValue("is_public", ~editor.values.is_public)

\* the Bubble of a user group, shown while the assistant is not public
toggleGroup(id) ==
    /\ ~editor.values.is_public
    /\ LET groups == editor.values.groups
           isSelected == \E i \in 1..Len(groups) : groups[i] = id
       IN  setFieldValue("groups",
                         IF isSelected
                         THEN SelectSeq(groups, LAMBDA g : g # id)
                         ELSE Append(groups, id))

searchToolEnabled_Always(values, tools) == TRUE

\* searchTool ? enabledTools.includes(searchTool.id) : false
searchToolEnabled(values, tools) ==
    SearchTool \in tools /\ values.enabled_tools_map[SearchTool]

\* the check box of the search tool: setFieldValue("num_chunks", null) and
\* toggleToolInValues(searchTool.id)
toggleSearchTool ==
    /\ ~editor.pushed
    /\ SearchTool \in editor.tools
    /\ editor' = Validated([editor.values EXCEPT
                               !.num_chunks = Null,
                               !.enabled_tools_map[SearchTool] = ~@])
    /\ UNCHANGED <<search, apiKeyForm>>

\* the check box of the image generation tool
toggleImageGenerationTool ==
    /\ ImageGenerationTool \in editor.tools
    /\ setFieldValue("enabled_tools_map",
                     [editor.values.enabled_tools_map
                        EXCEPT ![ImageGenerationTool] = ~@])

\* /^[0-9]+$/.test(value), for the texts typed into the field
ChunkTexts == {"", "5", "a"}
numeric(value) == value \in {"5"}

\* the num_chunks field, shown while the search tool is enabled
setNumChunks(value) ==
    /\ searchToolEnabled(editor.values, editor.tools)
    /\ value = "" \/ numeric(value)
    /\ setFieldValue("num_chunks", String(value))

\* onSelect of the provider selector
selectProvider(selected) ==
    /\ ~editor.pushed
    /\ editor' = Validated([editor.values EXCEPT
            !.llm_model_version_override =
                IF selected # editor.values.llm_model_provider_override
                THEN Null ELSE @,
            !.llm_model_provider_override = selected])
    /\ UNCHANGED <<search, apiKeyForm>>

\* the model selector, shown while a provider is selected
selectModel(model) ==
    /\ Truthy(editor.values.llm_model_provider_override)
    /\ setFieldValue("llm_model_version_override", String(model))

finalPromptError == ""

missingModel_Never(values) == FALSE

\* values.llm_model_provider_override && !values.llm_model_version_override
missingModel(values) ==
    /\ Truthy(values.llm_model_provider_override)
    /\ ~Truthy(values.llm_model_version_override)

\* Object.keys(values.enabled_tools_map).map(Number).filter(enabled), less
\* the image generation tool when the model does not support image input
enabledTools(values, tools, supportsImageInput) ==
    LET enabled == {t \in DOMAIN values.enabled_tools_map :
                      values.enabled_tools_map[t]}
        imageGenerationToolEnabled ==
            ImageGenerationTool \in tools /\ ImageGenerationTool \in enabled
    IN  IF imageGenerationToolEnabled /\ ~supportsImageInput
        THEN enabled \ {ImageGenerationTool}
        ELSE enabled

numChunks_FromForm(values, tools) ==
    IF Truthy(values.num_chunks) THEN values.num_chunks ELSE Number(DefaultChunks)

\* searchToolEnabled ? values.num_chunks || 10 : 0
numChunks(values, tools) ==
    IF searchToolEnabled(values, tools)
    THEN IF Truthy(values.num_chunks)
         THEN values.num_chunks
         ELSE Number(DefaultChunks)
    ELSE Number(0)

groups_FromForm(values) == values.groups

\* values.is_public ? [] : values.groups
groups(values) == IF values.is_public THEN <<>> ELSE values.groups

\* {...values, num_chunks: numChunks, groups, tool_ids: enabledTools}
payload(values, tools, supportsImageInput) ==
    [f \in DOMAIN values \cup {"tool_ids"} |->
        CASE f = "num_chunks" -> numChunks(values, tools)
          [] f = "groups" -> groups(values)
          [] f = "tool_ids" -> enabledTools(values, tools, supportsImageInput)
          [] OTHER -> values[f]]

Popup(type, message) == Some([type |-> type, message |-> message])

\* The submit button, enabled while nothing is being submitted; Formik
\* calls onSubmit when the form is valid.  onSubmit runs up to the await of
\* createPersona / updatePersona.
onSubmit(supportsImageInput) ==
    /\ ~editor.pushed
    /\ ~editor.isSubmitting
    /\ validationSchema(editor.values) = {}
    /\ editor' =
         IF finalPromptError # ""
         THEN [Validated(editor.values) EXCEPT
                 !.popup = Popup("error",
                     "Cannot submit while there are errors in the form")]
         ELSE IF missingModel(editor.values)
         THEN [Validated(editor.values) EXCEPT
                 !.popup = Popup("error",
                     "Must select a model if a non-default LLM provider is chosen.")]
         ELSE [Validated(editor.values) EXCEPT
                 !.isSubmitting = TRUE,
                 !.awaiting = TRUE,
                 !.sent = Some(payload(editor.values, editor.tools,
                                       supportsImageInput))]
    /\ UNCHANGED <<search, apiKeyForm>>

\* The responses of the backend: an error response carries a body.
PromptResponses ==
    {[ok |-> TRUE, text |-> "{}"], [ok |-> FALSE, text |-> "prompt detail"]}
PersonaResponses ==
    {None, Some([ok |-> TRUE, text |-> "{}"]),
     Some([ok |-> FALSE, text |-> "assistant detail"])}

submitError_IgnoresPrompt(promptResponse, personaResponse) ==
    IF personaResponse = None
    THEN String("Failed to create Assistant - no response received")
    ELSE IF ~personaResponse[1].ok
    THEN String(personaResponse[1].text)
    ELSE Null

\* let error = null; if (!promptResponse.ok) ...; if (!personaResponse) ...
\* else if (!personaResponse.ok) ...
submitError(promptResponse, personaResponse) ==
    IF personaResponse = None
    THEN String("Failed to create Assistant - no response received")
    ELSE IF ~personaResponse[1].ok
    THEN String(personaResponse[1].text)
    ELSE IF ~promptResponse.ok
    THEN String(promptResponse.text)
    ELSE Null

\* onSubmit after the await: the error popup, or the navigation, before
\* which the assistant may be added to the user's list.
respond(promptResponse, personaResponse, added) ==
    /\ editor.awaiting
    /\ LET error == submitError(promptResponse, personaResponse)
           done == [editor EXCEPT
                      !.awaiting = FALSE, !.sent = None,
                      !.answered = Some(<<promptResponse, personaResponse>>)]
       IN  editor' =
             IF Truthy(error) \/ personaResponse = None
             THEN [done EXCEPT
                     !.popup = Popup("error", "Failed to create Assistant"),
                     !.isSubmitting = FALSE]
             ELSE [done EXCEPT
                     !.popup = IF added = "added"
                               THEN Popup("success", "added to your list")
                               ELSE None,
                     !.pushed = TRUE]
    /\ UNCHANGED <<search, apiKeyForm>>

NextSubmit ==
    \/ \E existingPersona \in {None} \cup {Some(p) : p \in ExistingPersonas} :
         \E tools \in {{}, {SearchTool}, ToolIds} :
           \E defaultPublic \in IF existingPersona = None THEN BOOLEAN ELSE {TRUE} :
             openEditor(existingPersona, tools, defaultPublic)
    \/ \E field \in {"name", "description", "system_prompt"} :
         \E text \in {<<>>, <<"x">>} : handleChange(field, text)
    \/ toggleIsPublic
    \/ \E id \in UserGroups : toggleGroup(id)
    \/ toggleSearchTool
    \/ toggleImageGenerationTool
    \/ \E value \in ChunkTexts : setNumChunks(value)
    \/ \E selected \in {Null, String("p"), String("q")} : selectProvider(selected)
    \/ selectModel("m")
    \/ \E supportsImageInput \in BOOLEAN : onSubmit(supportsImageInput)
    \/ \E promptResponse \in PromptResponses :
         \E personaResponse \in PersonaResponses :
           \E added \in {"none", "added"} :
             respond(promptResponse, personaResponse, added)

\* The editor is a page without the search view.
InitSubmit == Init /\ agentic /\ ~disabledAgentic

SpecSubmit == InitSubmit /\ [][NextSubmit]_vars

\* ------------------------------------------------------ the API key form
\* the parent opens the modal
openApiKeyForm(apiKey) ==
    /\ apiKeyForm' = [Opened(apiKey) EXCEPT !.popup = apiKeyForm.popup]
    /\ UNCHANGED <<search, editor>>

Quiet(form) == [form EXCEPT !.called = {}, !.answered = None]

\* <TextFormField name="name">
changeName(text) ==
    /\ ~apiKeyForm.closed
    /\ apiKeyForm.values.name # text
    /\ apiKeyForm' = [Quiet(apiKeyForm) EXCEPT !.values.name = text]
    /\ UNCHANGED <<search, editor>>

\* <BooleanFormField name="is_admin">
toggleIsAdmin ==
    /\ ~apiKeyForm.closed
    /\ apiKeyForm' = [Quiet(apiKeyForm) EXCEPT !.values.is_admin = ~@]
    /\ UNCHANGED <<search, editor>>

\* the X of the modal, or a click outside it: onClose
closeApiKeyForm ==
    /\ ~apiKeyForm.closed
    /\ apiKeyForm' = [Quiet(apiKeyForm) EXCEPT !.closed = TRUE,
                                                !.called = {"onClose"}]
    /\ UNCHANGED <<search, editor>>

\* onSubmit up to the await of createApiKey / updateApiKey
submitApiKey ==
    /\ ~apiKeyForm.closed
    /\ ~apiKeyForm.isSubmitting
    /\ LET values == apiKeyForm.values
           role == IF values.is_admin THEN "admin" ELSE "basic"
           apiKeyPayload == [name |-> values.name,
                             is_admin |-> values.is_admin, role |-> role]
       IN  apiKeyForm' = [Quiet(apiKeyForm) EXCEPT
                            !.isSubmitting = TRUE,
                            !.request = Some(apiKeyPayload)]
    /\ UNCHANGED <<search, editor>>

\* The responses of the backend: the key, or an error body with a detail
\* field, a message field, both or neither (a field left out is None).
ApiKeyResponses ==
    {[ok |-> TRUE, json |-> [api_key_id |-> 1]]}
      \cup {[ok |-> FALSE, json |-> [detail |-> d, message |-> m]] :
              d \in {None, Some("detail")}, m \in {None, Some("message")}}

errorMsg_Message(responseJson) ==
    IF responseJson.message # None THEN responseJson.message[1] ELSE "undefined"

\* responseJson.detail || responseJson.message
errorMsg(responseJson) ==
    IF responseJson.detail # None THEN responseJson.detail[1]
    ELSE IF responseJson.message # None THEN responseJson.message[1]
    ELSE "undefined"

\* onSubmit after the await
answerApiKey(response) ==
    /\ apiKeyForm.request # None
    /\ LET done == [apiKeyForm EXCEPT !.isSubmitting = FALSE,
                                      !.request = None,
                                      !.answered = Some(response)]
       IN  apiKeyForm' =
             IF response.ok
             THEN [done EXCEPT
                     !.popup = Some([type |-> "success",
                                     message |-> IF apiKeyForm.isUpdate
                                                 THEN "Successfully updated API key!"
                                                 ELSE "Successfully created API key!",
                                     errorMsg |-> ""]),
                     !.called = IF apiKeyForm.isUpdate
                                THEN {"setPopup", "onClose"}
                                ELSE {"setPopup", "onCreateApiKey", "onClose"},
                     !.closed = TRUE]
             ELSE [done EXCEPT
                     !.popup = Some([type |-> "error",
                                     message |-> IF apiKeyForm.isUpdate
                                                 THEN "Error updating API key - "
                                                 ELSE "Error creating API key - ",
                                     errorMsg |-> errorMsg(response.json)]),
                     !.called = {"setPopup"}]
    /\ UNCHANGED <<search, editor>>

NextApiKey ==
    \/ \E apiKey \in {None} \cup {Some(k) : k \in ApiKeys} : openApiKeyForm(apiKey)
    \/ \E text \in Texts : changeName(text)
    \/ toggleIsAdmin
    \/ closeApiKeyForm
    \/ submitApiKey
    \/ \E response \in ApiKeyResponses : answerApiKey(response)

SpecApiKey == InitSubmit /\ [][NextApiKey]_vars

\* ----------------------------------------------------------------- store
\* The session state store alone: queries and the field updates of their
\* streams, in every order, with several payloads per field.
Payloads == {1, 2}
DocumentLists == {<<>>} \cup {<<d>> : d \in Payloads}

\* Quote[]: each quote carries the id of its document and its own text (here
\* its position in the list).
QuoteIds == {"a", "b"}
QuoteList(ids) ==
    [i \in 1..Len(ids) |-> [document_id |-> ids[i], quote |-> i]]
\* The lists of up to MaxQuotes quotes; the ids are only compared with each
\* other, so the lists that start with the other id add nothing.
QuoteLists ==
    {QuoteList(ids) :
        ids \in {s \in UNION {[1..n -> QuoteIds] : n \in 0..MaxQuotes} :
                    s # <<>> => s[1] = "a"}}

forEachQuote_KeepsAll(quotes, deduped, seen) == deduped \o quotes

\* quotes.forEach((quote) => { if (!seen.has(quote.document_id)) { push; add } })
RECURSIVE forEachQuote(_, _, _)
forEachQuote(quotes, deduped, seen) ==
    IF quotes = <<>>
    THEN deduped
    ELSE LET quote == Head(quotes)
         IN  IF quote.document_id \notin seen
             THEN forEachQuote(Tail(quotes), Append(deduped, quote),
                               seen \cup {quote.document_id})
             ELSE forEachQuote(Tail(quotes), deduped, seen)

\* const dedupedQuotes = []; const seen = new Set(); if (quotes) { ... }
dedupedQuotes ==
    IF searchResponse.quotes # None
    THEN forEachQuote(searchResponse.quotes[1], <<>>, {})
    ELSE <<>>

Handle(q, name, v, handler) ==
    /\ Deliver(q, name, handler)
    /\ feed' = IF searchFnArgs(name, q) THEN Handled(name, v) ELSE feed

NextStore ==
    \/ /\ onSearch("m")
       /\ feed' = [NoFeed EXCEPT !.prev = <<searchState, searchResponse,
                                           comments, isFetching>>]
       /\ UNCHANGED <<pacing, editor, apiKeyForm>>
    \/ \E q \in Queries : \E v \in Payloads :
         Handle(q, "updateCurrentAnswer", v,
                updateCurrentAnswer(Closure(q), q, v))
    \/ \E q \in Queries : \E v \in QuoteLists :
         Handle(q, "updateQuotes", v, updateQuotes(Closure(q), q, v))
    \/ \E q \in Queries : \E v \in DocumentLists :
         Handle(q, "updateDocs", v, updateDocs(Closure(q), q, v))
    \/ \E q \in Queries : \E v \in Payloads :
         Handle(q, "updateSuggestedSearchType", v,
                updateSuggestedSearchType(Closure(q), q, v))
    \/ \E q \in Queries : \E v \in Payloads :
         Handle(q, "updateSuggestedFlowType", v,
                updateSuggestedFlowType(Closure(q), q, v))
    \/ \E q \in Queries : \E v \in Payloads :
         Handle(q, "updateSelectedDocIndices", v,
                updateSelectedDocIndices(Closure(q), q, v))
    \/ \E q \in Queries : \E v \in Payloads :
         Handle(q, "updateError", v, updateError(Closure(q), q, v))
    \/ \E q \in Queries : \E v \in Payloads :
         Handle(q, "updateMessageAndThreadId", v,
                updateMessageAndThreadId(Closure(q), q, v))
    \/ \E q \in Queries : \E v \in Payloads :
         Handle(q, "updateDocumentRelevance", v,
                updateDocumentRelevance(Closure(q), q, v))

SpecStore == Init /\ [][NextStore]_vars


\* ------------------------------------------------------- saved sessions
\* A search view opened on a saved search (the searchId parameter is present)
\* fetches the session and rebuilds the query and the response from it.
MessageTypes == {"user", "assistant"}

\* The texts of a saved message: none, or a text that names its position.
MessageText(i, blank) ==
    IF blank THEN "" ELSE IF i = 1 THEN "s1" ELSE IF i = 2 THEN "s2" ELSE "s3"

MessageLists ==
    UNION {{[i \in 1..n |-> [message_type |-> types[i],
                            message |-> MessageText(i, blanks[i])]] :
              types \in [1..n -> MessageTypes], blanks \in [1..n -> BOOLEAN]} :
           n \in 0..MaxMessages}

\* SearchSession: the ordered messages and the documents of the search.
SearchSessions == [messages : MessageLists, documents : {<<>>, <<1>>}]

\* The searchId parameter as the page receives it: a text of digits.
SearchIds == {<<1, 2>>}

\* parseInt(existingSearchIdRaw) on a text of decimal digits
RECURSIVE parseInt(_)
parseInt(digits) ==
    IF Len(digits) = 1
    THEN Head(digits)
    ELSE parseInt(SubSeq(digits, 1, Len(digits) - 1)) * 10 + digits[Len(digits)]

extractFirstMessageByType_Last(chatSession, messageType) ==
    LET found == {i \in DOMAIN chatSession.messages :
                     chatSession.messages[i].message_type = messageType}
    IN  IF found = {}
        THEN None
        ELSE Some(chatSession.messages[
                 CHOOSE i \in found : \A j \in found : j <= i].message)

\* chatSession?.messages.find((msg) => msg.message_type === messageType),
\* then `userMessage ? userMessage.message : null`
extractFirstMessageByType(chatSession, messageType) ==
    LET found == {i \in DOMAIN chatSession.messages :
                     chatSession.messages[i].message_type = messageType}
    IN  IF found = {}
        THEN None
        ELSE Some(chatSession.messages[
                 CHOOSE i \in found : \A j \in found : i <= j].message)

\* the truth value of `string | null`: null and the empty text are false
Given(message) == message # None /\ message[1] # ""

danswerDocs(searchSession, assistantMessage, existingSearchIdRaw) ==
    [initialSearchResponse EXCEPT
        !.documents = Some(searchSession.documents),
        !.answer = Some(IF Given(assistantMessage)
                        THEN assistantMessage[1]
                        ELSE "Search response not found"),
        !.messageId = Some(parseInt(existingSearchIdRaw))]

\* The history of a session load: the searchId and the session it was given,
\* the query and the store it found.
Loaded(existingSearchIdRaw, searchSession) ==
    [name |-> "initialSessionFetch",
     value |-> Some([existingSearchIdRaw |-> existingSearchIdRaw,
                     searchSession |-> searchSession, query |-> query]),
     prev |-> <<searchState, searchResponse, comments, isFetching>>,
     twice |-> FALSE, written |-> feed.written]

\* initialSessionFetch, from the answer of the session endpoint on
initialSessionFetch(existingSearchIdRaw, searchSession) ==
    LET userMessage == extractFirstMessageByType(searchSession, "user")
        assistantMessage == extractFirstMessageByType(searchSession, "assistant")
    IN  /\ dispatched < MaxEvents
        /\ dispatched' = dispatched + 1
        /\ IF Given(userMessage)
           THEN /\ query' = userMessage[1]
                /\ isFetching' = FALSE
                /\ searchResponse' =
                     danswerDocs(searchSession, assistantMessage,
                                 existingSearchIdRaw)
           ELSE UNCHANGED <<query, isFetching, searchResponse>>
        /\ feed' = Loaded(existingSearchIdRaw, searchSession)
        /\ UNCHANGED <<searchState, comments, analyzeStartTime, agentic,
                       disabledAgentic, lastSearchCancellationToken, cancelled,
                       streams, timers, now, pacing, editor, apiKeyForm>>
        /\ last' = Step("initialSessionFetch", 0, "", Given(userMessage))

\* The search view with saved sessions: queries, the events that end the
\* fetching state or the phase, and session loads.
NextSession ==
    \/ /\ onSearch("m")
       /\ feed' = [NoFeed EXCEPT !.prev = <<searchState, searchResponse,
                                           comments, isFetching>>]
       /\ UNCHANGED <<pacing, editor, apiKeyForm>>
    \/ \E q \in Queries :
         Handle(q, "updateQuotes", q, updateQuotes(Closure(q), q, q))
    \/ \E q \in Queries :
         Handle(q, "updateMessageAndThreadId", q,
                updateMessageAndThreadId(Closure(q), q, q))
    \/ \E existingSearchIdRaw \in SearchIds : \E searchSession \in SearchSessions :
         initialSessionFetch(existingSearchIdRaw, searchSession)

\* The narration setting plays no part in a session load: one is followed.
InitSession == Init /\ agentic /\ ~disabledAgentic

SpecSession == InitSession /\ [][NextSession]_vars


\* ================================================================= claims
Active(q) == q # 0 /\ q = lastSearchCancellationToken
Ran(name) == last.op = "dispatch" /\ last.ran /\ last.ev = name
ZeroDocs == searchResponse.documents = Some(<<>>)

\* C1: an event dispatched on a stream whose token was cancelled before the
\* dispatch does not run its handler: searchResponse, comments, isFetching
\* and the phase are left as they were.
C1_CancelledHandlerDoesNotRun ==
    [][(last'.op = "dispatch" /\ last'.q \in cancelled)
         => UNCHANGED <<searchResponse, comments, isFetching, searchState>>]_vars

C1_Witness ==
    /\ last.op = "dispatch" /\ last.ev = "updateError"
    /\ last.q \in cancelled /\ ~last.ran
    /\ searchState = "searching"

\* C2: every token onSearch created, other than the one held in
\* lastSearchCancellationToken, has been cancelled, also after submissions
\* with an empty query.
C2_AtMostOneActiveToken ==
    \A t \in 1..Len(streams) :
        t # lastSearchCancellationToken => t \in cancelled

C2_Witness ==
    /\ Len(streams) = MaxQueries
    /\ last.op = "onSearch" /\ ~last.ran
    /\ Cardinality(cancelled) = MaxQueries - 1

\* C3 (as claimed): a phase timer scheduled by an earlier query that fires
\* after a newer query has started leaves the phase of the newer query alone.
C3_StaleTimerKeepsPhase ==
    (last.op = "timer" /\ last.q # lastSearchCancellationToken)
        => searchState = last.prev

\* C4: onSearch with a non-empty query cancels the previous token on the way
\* to starting the new stream, and from then on no event of a superseded
\* stream alters searchResponse.
C4_StaleStreamNeverAltersResponse ==
    [][/\ (last'.op = "onSearch" /\ last'.ran /\ lastSearchCancellationToken # 0)
          => /\ lastSearchCancellationToken \in cancelled'
             /\ lastSearchCancellationToken' \notin cancelled'
       /\ (last'.op = "dispatch" /\ last'.q # lastSearchCancellationToken)
          => searchResponse' = searchResponse]_vars

C4_Witness ==
    /\ last.op = "dispatch" /\ last.ev = "updateCurrentAnswer"
    /\ last.q # lastSearchCancellationToken /\ ~last.ran
    /\ searchResponse.answer = None

\* C5 (as claimed): from onSearch until the phase is next "input", no event or
\* timer of that query moves the phase to an earlier phase.
Rank(phase) ==
    CASE phase = "input" -> 0
      [] phase = "searching" -> 1
      [] phase = "reading" -> 2
      [] phase = "analyzing" -> 3
      [] phase = "summarizing" -> 4
      [] phase = "generating" -> 5
      [] phase = "citing" -> 6

C5_PhaseMonotonic ==
    (/\ last.op \in {"dispatch", "timer"} /\ last.ran
     /\ Active(last.q)
     /\ last.live)
        => Rank(searchState) >= Rank(last.prev)

\* C6: an error event, a quotes event and a documents event with zero
\* documents, delivered to the active query, each leave the phase at
\* "input", whatever it was and whatever the narration setting.
C6_TerminalEventForcesInput ==
    (Ran("updateError") \/ Ran("updateQuotes") \/ (Ran("updateDocs") /\ ZeroDocs))
        => searchState = "input"

C6_Witness ==
    /\ Ran("updateQuotes")
    /\ last.prev = "analyzing" /\ ~disabledAgentic
    /\ searchState = "input"

\* C7 (as claimed): once an error, quotes or zero-document event has forced
\* the phase to "input", it stays "input" until the next onSearch (which
\* clears the response these events wrote to).
C7_TerminalInputStays ==
    (searchResponse.error # None \/ searchResponse.quotes # None \/ ZeroDocs)
        => searchState = "input"

C9_QueryStartIsSearching ==
    (last.op = "onSearch" /\ last.ran) => searchState = "searching"

C9_Witness ==
    /\ last.op = "onSearch" /\ last.ran
    /\ last.prev = "analyzing"
    /\ searchState = "searching"

\* C10 (as claimed): the done event of the active query resets the phase to
\* "input".
C10_DoneResetsPhase == Ran("finishedSearching") => searchState = "input"

\* C10 (amended): the done event of the active query resets the phase to
\* "input" when narration is disabled for the deployment (disabledAgentic)
\* and otherwise leaves the phase as it was.
C10_DoneResetsPhaseWhenNarrationDisabled ==
    Ran("finishedSearching")
        => searchState = (IF disabledAgentic THEN "input" ELSE last.prev)

C10_Witness ==
    /\ Ran("finishedSearching") /\ disabledAgentic
    /\ last.prev = "searching" /\ searchState = "input"

\* C11: with narration disabled (disabledAgentic) a documents event of the
\* active query leaves the phase at "input" for any number of documents, and
\* no timer that fires afterwards, in that query, moves it away from "input".
C11_DocsEndPhasesWhenNarrationDisabled ==
    /\ (Ran("updateDocs") /\ disabledAgentic) => searchState = "input"
    /\ (/\ last.op = "timer" /\ disabledAgentic
        /\ searchResponse.documents # None)
          => searchState = "input"

C11_Witness ==
    /\ last.op = "timer" /\ last.ev = "reading" /\ Active(last.q)
    /\ disabledAgentic
    /\ searchResponse.documents = Some(<<last.q>>)
    /\ searchState = "input"

\* C12 (as claimed): with narration enabled, the phase of a query becomes
\* "analyzing" 4500 ms after the query started.
C12_AnalyzingAtFixedTimeFromQueryStart ==
    (/\ last.op = "timer" /\ last.ev = "analyzing" /\ Active(last.q)
     /\ searchState = "analyzing")
        => now = pacing.started + AnalyzingDelay

\* C12 (amended): with narration enabled a documents event schedules the
\* reading timer 1500 ms and the analyzing timer 4500 ms after the event; no
\* timer runs late; a timer that runs while the phase is not "input" makes the
\* phase "reading", respectively "analyzing", and the analyzing timer records
\* its time as the analysis start.
C12_TimersRunFromDocumentsEvent ==
    /\ (Ran("updateDocs") /\ streams[last.q].agentic)
          => /\ BagIn([kind |-> "reading", due |-> now + ReadingDelay,
                       q |-> last.q], timers)
             /\ BagIn([kind |-> "analyzing", due |-> now + AnalyzingDelay,
                       q |-> last.q], timers)
    /\ \A t \in BagToSet(timers) : t.due >= now
    /\ (last.op = "timer" /\ last.ev = "reading" /\ last.prev # "input")
          => searchState = "reading"
    /\ (last.op = "timer" /\ last.ev = "analyzing")
          => /\ analyzeStartTime = now
             /\ last.prev # "input" => searchState = "analyzing"

C12_Witness ==
    /\ last.op = "timer" /\ last.ev = "analyzing" /\ Active(last.q)
    /\ pacing.started = 0
    /\ now = FineTick + AnalyzingDelay
    /\ analyzeStartTime = now
    /\ searchState = "analyzing"

\* C13 (as claimed): an answer token of the current query that arrives e ms
\* after that query's analysis start schedules the generating timer
\* ceil(e / 1500) * 1500 - e ms later.
C13_GeneratingAtNextBoundary ==
    (Ran("updateCurrentAnswer") /\ Active(last.q) /\ pacing.analyzedAt # 0)
        => LET e == now - pacing.analyzedAt
           IN  BagIn([kind |-> "generating",
                      due |-> now + (nextInterval(e) - e),
                      q |-> last.q], timers)

\* ------------------------------------------------------- the state store
\* The field of searchResponse that belongs to each kind of event.
FieldOf(name) ==
    CASE name = "updateCurrentAnswer"       -> "answer"
      [] name = "updateQuotes"              -> "quotes"
      [] name = "updateDocs"                -> "documents"
      [] name = "updateSuggestedSearchType" -> "suggestedSearchType"
      [] name = "updateSuggestedFlowType"   -> "suggestedFlowType"
      [] name = "updateSelectedDocIndices"  -> "selectedDocIndices"
      [] name = "updateError"               -> "error"
      [] name = "updateMessageAndThreadId"  -> "messageId"
      [] name = "updateDocumentRelevance"   -> "additional_relevance"

\* C14: after any sequence of field updates applied to the empty response,
\* every field holds the last value set for it (none if it was never set);
\* the response is therefore a function of the per-field sequences alone, the
\* same for every interleaving of the fields.
C14_LastWritePerFieldWins ==
    \A n \in FieldEvents : searchResponse[FieldOf(n)] = feed.written[n]

C14_Witness ==
    /\ feed.name = "updateCurrentAnswer"
    /\ feed.prev[2].answer = Some(1)
    /\ searchResponse.answer = Some(2)
    /\ dispatched = 2

\* C15: an update function sets the field of its event kind to its payload
\* and leaves every other field of searchResponse as it found it.
C15_UpdateChangesOnlyItsField ==
    feed.name \in FieldEvents
        => /\ searchResponse[FieldOf(feed.name)] = feed.value
           /\ \A f \in Fields \ {FieldOf(feed.name)} :
                 searchResponse[f] = feed.prev[2][f]

C15_Witness ==
    /\ feed.name = "updateSelectedDocIndices"
    /\ feed.prev[2].documents = Some(<<1>>)
    /\ searchResponse.documents = Some(<<1>>)
    /\ searchResponse.selectedDocIndices = Some(2)

\* C16: an error event of the active query sets the error field to its
\* payload and the phase to "input"; the fields merged before it keep their
\* values.
C16_ErrorKeepsPartialResults ==
    (feed.name = "updateError" /\ Ran("updateError") /\ Active(last.q))
        => /\ searchResponse.error = feed.value
           /\ searchState = "input"
           /\ \A f \in {"answer", "quotes", "documents", "selectedDocIndices",
                         "messageId", "additional_relevance"} :
                 searchResponse[f] = feed.prev[2][f]

C16_Witness ==
    /\ feed.name = "updateError"
    /\ Active(last.q)
    /\ feed.prev[1] = "searching"
    /\ feed.prev[2].answer = Some(1)
    /\ searchResponse.answer = Some(1)
    /\ searchResponse.error = Some(2)
    /\ searchState = "input"

\* C17: a query start leaves searchResponse all-empty, whatever the response
\* held before, and from then on every value in the response is one that an
\* event of the new query's stream wrote: nothing of the previous query shows.
C17_NewQueryStartsFromEmptyResponse ==
    /\ (last.op = "onSearch" /\ last.ran)
          => searchResponse = initialSearchResponse
    /\ \A f \in Fields :
          searchResponse[f] # None
              => \E n \in FieldEvents :
                   FieldOf(n) = f /\ feed.written[n] = searchResponse[f]

C17_Witness ==
    /\ last.op = "onSearch"
    /\ last.q = 2
    /\ feed.prev[2].answer = Some(1)
    /\ feed.prev[2].documents = Some(<<2>>)
    /\ searchResponse = initialSearchResponse

\* The quotes of the response (none when absent) and the position of the
\* first quote of a document in them.
ShownQuotes ==
    IF searchResponse.quotes = None THEN <<>> ELSE searchResponse.quotes[1]
FirstWith(id) ==
    CHOOSE k \in 1..Len(ShownQuotes) :
        /\ ShownQuotes[k].document_id = id
        /\ \A m \in 1..(k - 1) : ShownQuotes[m].document_id # id

\* C18: dedupedQuotes holds, for every document id in searchResponse.quotes,
\* exactly the first quote with that id, in the order of first occurrence,
\* no document id twice, and is empty when quotes is absent.
C18_DedupedQuotesKeepFirstPerDocument ==
    LET ids == {ShownQuotes[k].document_id : k \in 1..Len(ShownQuotes)}
    IN  /\ searchResponse.quotes = None => dedupedQuotes = <<>>
        /\ {dedupedQuotes[i].document_id : i \in 1..Len(dedupedQuotes)} = ids
        /\ Len(dedupedQuotes) = Cardinality(ids)
        /\ \A i \in 1..Len(dedupedQuotes) :
              dedupedQuotes[i] = ShownQuotes[FirstWith(dedupedQuotes[i].document_id)]
        /\ \A i, j \in 1..Len(dedupedQuotes) :
              i < j => FirstWith(dedupedQuotes[i].document_id)
                         < FirstWith(dedupedQuotes[j].document_id)

C18_Witness ==
    /\ searchResponse.quotes = Some(QuoteList(<<"a", "b", "a">>))
    /\ dedupedQuotes = <<[document_id |-> "a", quote |-> 1],
                         [document_id |-> "b", quote |-> 2]>>

\* C19: an update function applied twice in a row with the same value leaves
\* the response, and the phase, comments and fetching flag with it, as the
\* first application left them.
C19_RepeatedUpdateChangesNothing ==
    feed.twice
        => <<searchState, searchResponse, comments, isFetching>> = feed.prev

C19_Witness ==
    /\ feed.twice
    /\ feed.name = "updateCurrentAnswer"
    /\ feed.value = Some(1)
    /\ searchResponse.answer = Some(1)

\* ------------------------------------------------- the assistant editor
Blank(text) == \A i \in 1..Len(text) : text[i] = " "
PromptErrors == {e \in editor.errors : e.path \in {"system_prompt", "task_prompt"}}

\* C20: a validated form whose system prompt and task prompt are both empty
\* or blank has exactly one error on the prompts, at system_prompt and none
\* at task_prompt; a form with a non-blank prompt has no error on them.
C20_BlankPromptsFailAtSystemPrompt ==
    editor.validated
        => IF Blank(editor.values.system_prompt) /\ Blank(editor.values.task_prompt)
           THEN /\ Cardinality(PromptErrors) = 1
                /\ \A e \in PromptErrors : e.path = "system_prompt"
           ELSE PromptErrors = {}

C20_Witness ==
    /\ editor.validated
    /\ editor.values.system_prompt = <<" ", " ">>
    /\ editor.values.task_prompt = <<>>
    /\ editor.values.name = <<"x">>
    /\ Cardinality(editor.errors) = 2
    /\ \E e \in editor.errors : e.path = "system_prompt"

\* C21: once the responses of a submit have arrived, the editor has
\* navigated exactly if the prompt response and the assistant response both
\* report success; otherwise it shows an error popup, the submitting flag is
\* cleared and it has not navigated.  It navigates at no other moment.
C21_NavigatesOnlyWhenBothSucceed ==
    /\ editor.answered # None
          => LET promptResponse == editor.answered[1][1]
                 personaResponse == editor.answered[1][2]
             IN  IF /\ promptResponse.ok
                    /\ personaResponse # None
                    /\ personaResponse[1].ok
                 THEN editor.pushed
                 ELSE /\ ~editor.pushed
                      /\ editor.popup # None
                      /\ editor.popup[1].type = "error"
                      /\ ~editor.isSubmitting
    /\ editor.pushed => editor.answered # None

C21_Witness ==
    /\ editor.answered =
         Some(<<[ok |-> FALSE, text |-> "prompt detail"],
                Some([ok |-> TRUE, text |-> "{}"])>>)
    /\ editor.popup = Popup("error", "Failed to create Assistant")
    /\ ~editor.isSubmitting
    /\ ~editor.pushed

\* C22: the payload a submit sends carries num_chunks = 0 whenever the form
\* has the search tool switched off or the page has no search tool, whatever
\* chunk count the form holds.
C22_NoSearchToolSendsZeroChunks ==
    (/\ editor.sent # None
     /\ \/ SearchTool \notin editor.tools
        \/ ~editor.values.enabled_tools_map[SearchTool])
        => editor.sent[1].num_chunks = Number(0)

C22_Witness ==
    /\ editor.sent # None
    /\ SearchTool \in editor.tools
    /\ ~editor.values.enabled_tools_map[SearchTool]
    /\ editor.values.num_chunks = Number(5)
    /\ editor.sent[1].num_chunks = Number(0)

\* C23: the payload a submit sends carries no groups when the form is
\* public, whatever groups are selected, and the selected groups unchanged
\* when it is not.
C23_PublicSendsNoGroups ==
    editor.sent # None
        => editor.sent[1].groups =
             IF editor.values.is_public THEN <<>> ELSE editor.values.groups

C23_Witness ==
    /\ editor.sent # None
    /\ editor.values.is_public
    /\ editor.values.groups = <<1>>
    /\ editor.sent[1].groups = <<>>
    /\ editor.sent[1].is_public

\* C30: no payload is sent with a provider override and no model override:
\* a submit of such a form shows the error popup and sends nothing, and a
\* change of the provider in the form (the form of a page opened anew is not
\* validated yet) leaves the model override empty.
ModelPopup ==
    Popup("error", "Must select a model if a non-default LLM provider is chosen.")
C30_NoProviderWithoutModelIsSent ==
    /\ [](/\ editor.sent # None
              => ~(/\ Truthy(editor.sent[1].llm_model_provider_override)
                   /\ ~Truthy(editor.sent[1].llm_model_version_override))
          /\ editor.popup = ModelPopup
              => /\ Truthy(editor.values.llm_model_provider_override)
                 /\ ~Truthy(editor.values.llm_model_version_override)
                 /\ editor.sent = None
                 /\ ~editor.awaiting
                 /\ ~editor.isSubmitting)
    /\ [][(/\ editor.validated'
            /\ editor.values.llm_model_provider_override'
                  # editor.values.llm_model_provider_override)
           => editor.values.llm_model_version_override' = Null]_vars

C30_Witness ==
    /\ editor.popup = ModelPopup
    /\ editor.values.llm_model_provider_override = String("q")
    /\ editor.values.llm_model_version_override = Null
    /\ editor.sent = None

\* ------------------------------------------------------ the API key form
\* C24: after a response that is not ok the popup is an error whose text
\* carries the detail of the body, or its message when there is no detail;
\* the submitting flag is cleared and the handler has called neither onClose
\* nor onCreateApiKey.
C24_FailedApiKeyKeepsFormOpen ==
    (apiKeyForm.answered # None /\ ~apiKeyForm.answered[1].ok)
        => LET responseJson == apiKeyForm.answered[1].json
           IN  /\ apiKeyForm.popup # None
               /\ apiKeyForm.popup[1].type = "error"
               /\ responseJson.detail # None
                     => apiKeyForm.popup[1].errorMsg = responseJson.detail[1]
               /\ (responseJson.detail = None /\ responseJson.message # None)
                     => apiKeyForm.popup[1].errorMsg = responseJson.message[1]
               /\ ~apiKeyForm.isSubmitting
               /\ apiKeyForm.called \cap {"onClose", "onCreateApiKey"} = {}

C24_Witness ==
    /\ apiKeyForm.answered =
         Some([ok |-> FALSE,
               json |-> [detail |-> Some("detail"), message |-> Some("message")]])
    /\ apiKeyForm.popup[1].errorMsg = "detail"
    /\ ~apiKeyForm.isSubmitting
    /\ ~apiKeyForm.closed
    /\ ~apiKeyForm.isUpdate

\* ------------------------------------------------------- saved sessions
\* The session a load was given: its messages of one type, in order, and the
\* search id as the number its digits write.
LoadedSession == feed.value[1].searchSession
Tagged(messageType) ==
    SelectSeq(LoadedSession.messages,
              LAMBDA msg : msg.message_type = messageType)
RECURSIVE Digits(_)
Digits(n) == IF n < 10 THEN <<n>> ELSE Append(Digits(n \div 10), n % 10)
SearchId == CHOOSE n \in 0..999 : Digits(n) = feed.value[1].existingSearchIdRaw
Rebuilt(answer) ==
    [f \in Fields |->
        CASE f = "documents" -> Some(LoadedSession.documents)
          [] f = "answer"    -> Some(answer)
          [] f = "messageId" -> Some(SearchId)
          [] OTHER           -> None]

\* C25 as stated: a saved session with a user message sets the query to the
\* first user message and replaces the response by the session's documents,
\* the first assistant message ("Search response not found" when the session
\* has none), the search id as messageId and every other field empty; a
\* session with no user message leaves the query and the response alone.
C25_SessionWithUserMessageIsLoaded ==
    feed.name = "initialSessionFetch"
        => IF Tagged("user") # <<>>
           THEN /\ query = Tagged("user")[1].message
                /\ searchResponse =
                     Rebuilt(IF Tagged("assistant") # <<>>
                             THEN Tagged("assistant")[1].message
                             ELSE "Search response not found")
           ELSE /\ query = feed.value[1].query
                /\ searchResponse = feed.prev[2]

\* C25, amended: the session is loaded when its first user message has a
\* text, and is left alone when there is no user message or the first one is
\* empty; the answer is "Search response not found" also when the first
\* assistant message is empty.
C25_SessionIsLoadedWhenFirstUserMessageHasText ==
    feed.name = "initialSessionFetch"
        => IF Tagged("user") # <<>> /\ Tagged("user")[1].message # ""
           THEN /\ query = Tagged("user")[1].message
                /\ searchResponse =
                     Rebuilt(IF /\ Tagged("assistant") # <<>>
                                /\ Tagged("assistant")[1].message # ""
                             THEN Tagged("assistant")[1].message
                             ELSE "Search response not found")
           ELSE /\ query = feed.value[1].query
                /\ searchResponse = feed.prev[2]

\* a session whose second message is its first user message is loaded over
\* the quotes and the message id of a query that is still fetching
C25_Witness ==
    /\ feed.name = "initialSessionFetch"
    /\ Len(LoadedSession.messages) = 2
    /\ LoadedSession.messages[1].message_type = "assistant"
    /\ LoadedSession.messages[2].message_type = "user"
    /\ query = "s2"
    /\ feed.prev[2].quotes # None
    /\ searchResponse.quotes = None
    /\ searchResponse.answer = Some("s1")
    /\ searchResponse.messageId = Some(12)
    /\ searchResponse.documents = Some(<<1>>)
    /\ feed.prev[4] /\ ~isFetching

\* ---------------------------------------------------------------- pacing
\* C26 (as claimed): an answer token schedules a generating timer only if
\* the analyzing timer of its own query has already run; a token that comes
\* before the analysis start of its query schedules nothing, also in a query
\* started after an earlier query recorded an analysis start.
C26_TokenBeforeOwnAnalysisSchedulesNothing ==
    [][(/\ last'.op = "dispatch" /\ last'.ran
        /\ last'.ev = "updateCurrentAnswer"
        /\ timers' # timers)
          => (Active(last'.q) /\ pacing.analyzedAt # 0)]_vars

\* ------------------------------------------------------------- fetching
\* The handler that ran in the step, if the step was an event that ran one.
\* The doc-status callback is given the message-id handler.
Runs(names) == last'.op = "dispatch" /\ last'.ran /\ last'.ev \in names

\* C27: an error event and a quotes event leave the phase at "input" and
\* isFetching as it was; isFetching becomes true only when onSearch starts a
\* query, and false only by the message-id handler, a relevance event, a
\* documents event while narration is disabled, or a saved-session load.
C27_FetchingEndsOnlyByListedEvents ==
    [][/\ Runs({"updateError", "updateQuotes"})
            => searchState' = "input" /\ isFetching' = isFetching
       /\ (~isFetching /\ isFetching') => (last'.op = "onSearch" /\ last'.ran)
       /\ (isFetching /\ ~isFetching')
            => \/ Runs({"updateMessageAndThreadId", "updateDocStatus",
                        "updateDocumentRelevance"})
               \/ Runs({"updateDocs"}) /\ disabledAgentic
               \/ last'.op = "initialSessionFetch"]_vars

\* an error event has ended the phases of a query that is still fetching
C27_Witness ==
    /\ Ran("updateError")
    /\ last.prev = "searching"
    /\ searchState = "input"
    /\ isFetching
    /\ searchResponse.messageId = None

\* ------------------------------------------------------------ empty query
\* C28: onSearch with no override message while the query text is empty
\* changes nothing: the token is not cancelled and no token is created, no
\* stream is opened, and the response, the phase and isFetching stay as
\* they were, so the stream of the current token goes on delivering.
C28_EmptyQueryIsNoOp ==
    [][(last'.op = "onSearch" /\ last'.ev = "" /\ query = "")
          => /\ UNCHANGED <<lastSearchCancellationToken, cancelled, streams,
                            searchResponse, searchState, isFetching, comments,
                            timers>>
             /\ ~last'.ran]_vars

\* onSearch was called with an empty query while the stream of the current
\* token was still delivering: it still is
C28_Witness ==
    /\ last.op = "onSearch" /\ last.ev = "" /\ query = ""
    /\ Active(Len(streams))
    /\ Len(streams) \notin cancelled
    /\ ~streams[Len(streams)].done
    /\ isFetching
    /\ searchState = "searching"
    /\ dispatched < MaxEvents

\* ----------------------------------------------------------------- phases
\* C29: the phase is always one of input, searching, reading, analyzing and
\* generating; no event, timer or user action enters "summarizing" or
\* "citing", which the type of the phase declares.
C29_PhaseIsNeverSummarizingOrCiting ==
    /\ searchState \in Phases \ {"summarizing", "citing"}
    /\ last.prev \in Phases \ {"summarizing", "citing"}

\* the generating timer has moved the phase to the last one that is entered
C29_Witness ==
    /\ last.op = "timer" /\ last.ev = "generating"
    /\ last.prev = "searching"
    /\ searchState = "generating"

====
